---- MODULE Spec2Model ----
(***************************************************************************)
(* State-machine model of the WhatsApp HTTP API session manager            *)
(* (src/index.js, class SessionManager) and of its persistence layer       *)
(* (src/db.js).  One action per HTTP handler, protocol event handler or    *)
(* timer callback; the helpers are operators over a record "w" holding     *)
(* the program's state.  A handler runs to its end before the next one     *)
(* starts, and a process serves requests and protocol events once its      *)
(* restoreSessions() has run.                                              *)
(***************************************************************************)
EXTENDS Integers, FiniteSets, Sequences, TLC

VARIABLES
  sessions,   \* db.js table "sessions": id -> row or nothing
  messages,   \* db.js table "messages": a set of rows, primary key id
  folders,    \* the directories ./auth_sessions/<id>: id -> files or nothing
  sockets,    \* SessionManager.sockets: id -> { sock, isConnected, saveCreds }
  socks,      \* the connection handles made by makeWASocket
  timers,     \* pending setTimeout(() => startSession(id), 5000) callbacks
  restored,   \* restoreSessions() of this process run has been executed
  restarts,   \* process restarts so far
  usedIds,    \* ids that have been in use (uuidv4() returns none of them)
  stale,      \* history: per id, pending timers scheduled before a completed delete
  loggedOut,  \* history: ids torn down by a logged-out close
  attempted,  \* history: per (session, message id) the POSTs made for the stored
              \*   message and the outcome of the last one
  inflight,   \* the POSTs of forward requests and backlog scans that are awaited
  persisting, \* the db.saveSession calls of creds.update handlers that are awaited
  last        \* history: the handler that ran last and what it answered

vars == <<sessions, messages, folders, sockets, socks, timers, restored,
          restarts, usedIds, stale, loggedOut, attempted, inflight, persisting, last>>

(***************************************************************************)
(* Bounds of the model.                                                    *)
(***************************************************************************)
MaxHandles  == 3   \* connection handles alive or referenced at one time
MaxAttempts == 2   \* delivery attempts recorded per message
MaxRestarts == 1   \* process restarts

SessionIds == {"A", "B"}
Handles    == 1..MaxHandles
MsgIds     == {"m1", "m2"}

(***************************************************************************)
(* Values.                                                                 *)
(***************************************************************************)
NULL   == "null"
None   == <<>>
Some(x) == <<x>>
IsSome(o) == o # <<>>
Get(o) == o[1]

\* Files of a working-state directory and their (parsed JSON) contents.
Files  == {"creds.json"}
ABSENT == "absent"
CredsMe   == "creds+me"     \* creds.json whose JSON has the "me" identity
CredsNoMe == "creds-me"     \* creds.json without "me" (not yet paired)
NoFiles   == [f \in Files |-> ABSENT]

\* Webhook targets.
UrlIncoming == "http://hook/incoming"
UrlGroup    == "http://hook/group"
UrlForward  == "http://hook/forward"
NoWebhooks  == [incoming |-> NULL, group |-> NULL, status |-> NULL]

\* JIDs: <user>@<server>; a group JID ends with "@g.us".
UserJid  == [user |-> "255700000001", server |-> "s.whatsapp.net"]
GroupJid == [user |-> "120363000000", server |-> "g.us"]
NoJid    == [user |-> "", server |-> ""]   \* key.participant of an individual message

\* Inbound protocol messages (messages.upsert).  m1 can reach a session as an
\* individual message and as a group message with other content; the same
\* message id can reach both sessions (two accounts in one group).
InboundEvents ==
  { [key |-> [id |-> "m1", remoteJid |-> UserJid,  fromMe |-> FALSE, participant |-> NoJid],
     message |-> "hi", messageTimestamp |-> 1],
    [key |-> [id |-> "m1", remoteJid |-> GroupJid, fromMe |-> FALSE, participant |-> UserJid],
     message |-> "yo", messageTimestamp |-> 2],
    [key |-> [id |-> "m2", remoteJid |-> GroupJid, fromMe |-> FALSE, participant |-> UserJid],
     message |-> "hi", messageTimestamp |-> 2],
    [key |-> [id |-> "m2", remoteJid |-> UserJid,  fromMe |-> TRUE, participant |-> NoJid],
     message |-> "out", messageTimestamp |-> 1] }

DeliveryError == "Webhook POST failed"

(***************************************************************************)
(* db.js                                                                   *)
(***************************************************************************)
EmptyRow == [auth_json |-> None, webhooks |-> None, last_status |-> None]

\* A faulty saveSession: the upsert replaces the row.
saveSessionReplace(tbl, id, authJson) ==
  [tbl EXCEPT ![id] = Some([EmptyRow EXCEPT !.auth_json = Some(authJson)])]

\* INSERT ... ON CONFLICT (id) DO UPDATE SET auth_json = $2
saveSession(tbl, id, authJson) ==
  [tbl EXCEPT ![id] =
     IF IsSome(tbl[id]) THEN Some([Get(tbl[id]) EXCEPT !.auth_json = Some(authJson)])
     ELSE Some([EmptyRow EXCEPT !.auth_json = Some(authJson)])]

\* SELECT auth_json ...: rows[0]?.auth_json || null
loadSession(tbl, id) ==
  IF IsSome(tbl[id]) THEN Get(tbl[id]).auth_json ELSE None

\* INSERT ... ON CONFLICT (id) DO UPDATE SET last_status = $2
saveLastStatus(tbl, id, lastStatus) ==
  [tbl EXCEPT ![id] =
     IF IsSome(tbl[id]) THEN Some([Get(tbl[id]) EXCEPT !.last_status = Some(lastStatus)])
     ELSE Some([EmptyRow EXCEPT !.last_status = Some(lastStatus)])]

\* INSERT ... ON CONFLICT (id) DO UPDATE SET webhooks = $2
saveWebhooks(tbl, id, webhooks) ==
  [tbl EXCEPT ![id] =
     IF IsSome(tbl[id]) THEN Some([Get(tbl[id]) EXCEPT !.webhooks = Some(webhooks)])
     ELSE Some([EmptyRow EXCEPT !.webhooks = Some(webhooks)])]

\* SELECT webhooks ...: rows[0]?.webhooks || null, then "|| {}" in the callers
loadWebhooks(tbl, id) ==
  IF IsSome(tbl[id]) /\ IsSome(Get(tbl[id]).webhooks)
  THEN Get(Get(tbl[id]).webhooks) ELSE NoWebhooks

\* SELECT id ... FROM sessions
listSessions(tbl) == {id \in SessionIds : IsSome(tbl[id])}

\* DELETE FROM sessions WHERE id = $1, with messages.session_id ON DELETE CASCADE
deleteSessionRow(tbl, id) == [tbl EXCEPT ![id] = None]

\* A faulty schema: messages.session_id without ON DELETE CASCADE.
deleteCascadeNone(msgs, id) == msgs

deleteCascade(msgs, id) == {r \in msgs : r.session_id # id}

\* A faulty saveMessage: ON CONFLICT (id) DO UPDATE of the content columns.
saveMessageOverwrite(msgs, tbl, sessionId, entry) ==
  IF ~IsSome(tbl[sessionId]) THEN msgs
  ELSE IF \E r \in msgs : r.id = entry.id
  THEN { IF r.id = entry.id
         THEN [r EXCEPT !.from_jid = entry.from, !.is_group = entry.isGroup,
                        !.timestamp_ms = entry.timestamp, !.text = entry.text,
                        !.raw = entry.raw]
         ELSE r : r \in msgs }
  ELSE msgs \cup { [id |-> entry.id, session_id |-> sessionId,
                    from_jid |-> entry.from, is_group |-> entry.isGroup,
                    timestamp_ms |-> entry.timestamp, text |-> entry.text,
                    raw |-> entry.raw, delivered |-> FALSE,
                    delivery_attempts |-> 0, last_delivery_error |-> NULL,
                    pending_webhook |-> NULL] }

\* INSERT INTO messages ... ON CONFLICT (id) DO NOTHING; session_id REFERENCES
\* sessions(id), so the insert fails (the caller ignores it) without a session row.
saveMessage(msgs, tbl, sessionId, entry) ==
  IF (\E r \in msgs : r.id = entry.id) \/ ~IsSome(tbl[sessionId]) THEN msgs
  ELSE msgs \cup { [id |-> entry.id, session_id |-> sessionId,
                    from_jid |-> entry.from, is_group |-> entry.isGroup,
                    timestamp_ms |-> entry.timestamp, text |-> entry.text,
                    raw |-> entry.raw, delivered |-> FALSE,
                    delivery_attempts |-> 0, last_delivery_error |-> NULL,
                    pending_webhook |-> NULL] }

\* A faulty update: last_delivery_error = COALESCE($3, last_delivery_error).
updateMessageDeliveryKeepError(msgs, id, delivered, pending_webhook, last_delivery_error) ==
  { IF r.id = id
    THEN [r EXCEPT !.delivery_attempts = @ + 1,
                   !.delivered = delivered,
                   !.last_delivery_error =
                      IF last_delivery_error = NULL THEN @ ELSE last_delivery_error,
                   !.pending_webhook = pending_webhook]
    ELSE r : r \in msgs }

\* UPDATE messages SET delivery_attempts = COALESCE(delivery_attempts,0) + 1,
\*   delivered = $2, last_delivery_error = $3, pending_webhook = $4 WHERE id = $1
updateMessageDelivery(msgs, id, delivered, pending_webhook, last_delivery_error) ==
  { IF r.id = id
    THEN [r EXCEPT !.delivery_attempts = @ + 1,
                   !.delivered = delivered,
                   !.last_delivery_error = last_delivery_error,
                   !.pending_webhook = pending_webhook]
    ELSE r : r \in msgs }

\* A faulty getUndeliveredMessages: no test of delivered and pending_webhook.
getUndeliveredMessagesAll(msgs, sessionId, webhook) ==
  {r \in msgs : /\ r.session_id = sessionId
                /\ (webhook # NULL => r.pending_webhook = webhook)}

\* SELECT ... WHERE session_id = $1 AND (delivered = false OR pending_webhook
\*   IS NOT NULL) [AND pending_webhook = $2]
getUndeliveredMessages(msgs, sessionId, webhook) ==
  {r \in msgs : /\ r.session_id = sessionId
                /\ (r.delivered = FALSE \/ r.pending_webhook # NULL)
                /\ (webhook # NULL => r.pending_webhook = webhook)}

\* A faulty getMessagesByIds: no AND session_id = ... in the query.
getMessagesByIdsAnySession(msgs, ids, sessionId) == {r \in msgs : r.id \in ids}

\* SELECT ... WHERE id = ANY($1) AND session_id = '<sessionId>'
getMessagesByIds(msgs, ids, sessionId) ==
  {r \in msgs : r.id \in ids /\ r.session_id = sessionId}

\* The row with the largest timestamp_ms (ORDER BY timestamp_ms DESC).
Newest(rows) == CHOOSE r \in rows : \A q \in rows : q.timestamp_ms <= r.timestamp_ms

RECURSIVE TopByTimestamp(_, _)
TopByTimestamp(rows, n) ==
  IF n = 0 \/ rows = {} THEN {}
  ELSE {Newest(rows)} \cup TopByTimestamp(rows \ {Newest(rows)}, n - 1)

\* The limit forward passes to getMessages.
ForwardLimit == 50

\* SELECT ... WHERE session_id = $1 ORDER BY timestamp_ms DESC LIMIT $2,
\*   the limit being Math.min(500, Math.max(1, Number(limit) || 50))
getMessages(msgs, sessionId, limit) ==
  TopByTimestamp({r \in msgs : r.session_id = sessionId}, limit)

(***************************************************************************)
(* index.js: the state record and the working-state directory              *)
(***************************************************************************)
World == [sessions |-> sessions, messages |-> messages, folders |-> folders,
          sockets |-> sockets, socks |-> socks, timers |-> timers]

FreeSock == [sid |-> "-", st |-> "free", creds |-> ABSENT]

\* out[f] = JSON.parse(readFileSync(folder/f)) for every file of the folder; {}
\* when the folder does not exist
readFolder(fs, id) == IF IsSome(fs[id]) THEN Get(fs[id]) ELSE NoFiles

\* saved['creds.json']?.me || saved.creds?.me  (no code writes a key "creds")
hasMe(blob) == blob["creds.json"] = CredsMe

\* A faulty writeAuthFiles: a directory that exists is left as it is.
writeAuthFilesIfMissing(fs, id, saved) ==
  IF IsSome(fs[id]) THEN fs
  ELSE [fs EXCEPT ![id] = Some([f \in Files |-> saved[f]])]

\* mkdirSync(folder) when missing, then writeFileSync(folder/fname,
\* JSON.stringify(content)) for every entry of the saved blob
writeAuthFiles(fs, id, saved) ==
  [fs EXCEPT ![id] =
     Some([f \in Files |-> IF saved[f] # ABSENT THEN saved[f]
                           ELSE readFolder(fs, id)[f]])]

\* useMultiFileAuthState(folder): creates the folder when missing; the creds it
\* returns are those of creds.json, or fresh ones (no "me") without that file
ensureFolder(fs, id) == IF IsSome(fs[id]) THEN fs ELSE [fs EXCEPT ![id] = Some(NoFiles)]

initialCreds(fs, id) ==
  IF readFolder(fs, id)["creds.json"] # ABSENT
  THEN readFolder(fs, id)["creds.json"] ELSE CredsNoMe

\* saveCreds of a handle: writeFile(folder/creds.json, creds); it throws, and the
\* callers ignore it, when the folder is gone
saveCreds(fs, id, creds) ==
  IF IsSome(fs[id]) THEN [fs EXCEPT ![id] = Some([Get(fs[id]) EXCEPT !["creds.json"] = creds])]
  ELSE fs

\* fs.rmSync(authDir/<id>, { recursive: true, force: true })
rmFolder(fs, id) == [fs EXCEPT ![id] = None]

\* deleteSession removes the FILE authDir/<id>.json when it exists; no code
\* creates such a file, and the directory authDir/<id> is another path
rmAuthFile(fs, id) == fs

(***************************************************************************)
(* Connection handles                                                      *)
(***************************************************************************)
FreeHandles(w) == {h \in Handles : w.socks[h].st = "free"}
NewHandle(w) == CHOOSE h \in FreeHandles(w) : \A g \in FreeHandles(w) : h <= g
LiveHandles(w, id) == {h \in Handles : w.socks[h].sid = id /\ w.socks[h].st \in {"connecting", "open"}}

\* A handle that is closed and that no entry of the map holds any more is
\* garbage: its slot of the pool is free again.
Collect(w) ==
  [w EXCEPT !.socks =
     [h \in Handles |->
        IF w.socks[h].st = "closed"
           /\ ~(\E id \in SessionIds : IsSome(w.sockets[id]) /\ Get(w.sockets[id]).sock = h)
        THEN FreeSock ELSE w.socks[h]]]

\* sock.end(): the handle is closed
endSock(w, h) == [w EXCEPT !.socks[h].st = "closed"]

(***************************************************************************)
(* index.js: startSession (lines 840-877)                                  *)
(***************************************************************************)
\* A faulty startSession: it returns once the connection is open.
startSessionAwaitOpen(w, sessionId) ==
  LET saved == loadSession(w.sessions, sessionId)
      fs1   == IF IsSome(saved) THEN writeAuthFiles(w.folders, sessionId, Get(saved))
               ELSE w.folders
      fs2   == ensureFolder(fs1, sessionId)
      h     == NewHandle(w)
  IN [w EXCEPT !.folders = fs2,
               !.socks[h] = [sid |-> sessionId, st |-> "open",
                             creds |-> initialCreds(fs2, sessionId)],
               !.sockets[sessionId] = Some([sock |-> h, isConnected |-> TRUE])]

startSession(w, sessionId) ==
  LET saved == loadSession(w.sessions, sessionId)
      fs1   == IF IsSome(saved) THEN writeAuthFiles(w.folders, sessionId, Get(saved))
               ELSE w.folders
      fs2   == ensureFolder(fs1, sessionId)
      h     == NewHandle(w)
  IN [w EXCEPT !.folders = fs2,
               !.socks[h] = [sid |-> sessionId, st |-> "connecting",
                             creds |-> initialCreds(fs2, sessionId)],
               !.sockets[sessionId] = Some([sock |-> h, isConnected |-> FALSE])]

RECURSIVE startAll(_, _)
startAll(w, ids) ==
  IF ids = {} THEN w
  ELSE LET id == CHOOSE x \in ids : TRUE
       IN startAll(startSession(w, id), ids \ {id})

(***************************************************************************)
(* index.js: webhook delivery                                              *)
(***************************************************************************)
\* A faulty recordAttempt: a delivery keeps the target as pending_webhook.
recordAttemptKeepTarget(msgs, id, target, ok) ==
  IF ok THEN updateMessageDelivery(msgs, id, TRUE, target, NULL)
  ELSE updateMessageDelivery(msgs, id, FALSE, target, DeliveryError)

\* A faulty recordAttempt: a failure does not record the target.
recordAttemptDropTarget(msgs, id, target, ok) ==
  IF ok THEN updateMessageDelivery(msgs, id, TRUE, NULL, NULL)
  ELSE updateMessageDelivery(msgs, id, FALSE, NULL, DeliveryError)

\* The try/catch around postToWebhook: a 2xx response records a delivery, an
\* error (non-2xx, timeout, network) records the target as pending.
recordAttempt(msgs, id, target, ok) ==
  IF ok THEN updateMessageDelivery(msgs, id, TRUE, NULL, NULL)
  ELSE updateMessageDelivery(msgs, id, FALSE, target, DeliveryError)

\* for (const m of messages) { ... }: one attempt per fetched row that has a
\* target; target[id] and ok[id] are the target and the outcome of the POST
RECURSIVE attemptAll(_, _, _, _)
attemptAll(msgs, ids, target, ok) ==
  IF ids = {} THEN msgs
  ELSE LET id == CHOOSE x \in ids : TRUE
       IN attemptAll(recordAttempt(msgs, id, target[id], ok[id]), ids \ {id}, target, ok)

\* results.push({ id: m.id, status: 'delivered' | 'pending' | 'skipped' }) of the
\* forward and retry loops: one outcome per fetched row
batchResults(ids, target, ok) ==
  [id \in ids |-> IF target[id] = NULL THEN "skipped"
                  ELSE IF ok[id] THEN "delivered" ELSE "pending"]

\* handleIncomingMessages: the entry built from a protocol message
entryOf(message) ==
  [id |-> message.key.id,
   from |-> message.key.remoteJid,
   isGroup |-> message.key.remoteJid.server = "g.us",
   timestamp |-> message.messageTimestamp * 1000,
   text |-> message.message,
   raw |-> message]

\* the message objects buildWebhookPayload is called with: the entry made at
\* ingestion, which holds the protocol message as raw, and the object the
\* SELECTs of db.js return for a row (id, from_jid, is_group, timestamp_ms,
\* text and the delivery fields: raw is not selected)
fromEntry(entry) ==
  [id |-> entry.id, from |-> entry.from, isGroup |-> entry.isGroup,
   timestamp |-> entry.timestamp, text |-> entry.text, raw |-> Some(entry.raw)]

\* A faulty SELECT list: with the raw column.
rowToMessageWithRaw(r) ==
  [id |-> r.id, from |-> r.from_jid, isGroup |-> r.is_group,
   timestamp |-> r.timestamp_ms, text |-> r.text, raw |-> Some(r.raw)]

rowToMessage(r) ==
  [id |-> r.id, from |-> r.from_jid, isGroup |-> r.is_group,
   timestamp |-> r.timestamp_ms, text |-> r.text, raw |-> None]

\* formatSenderNumber (lines 781-797): "+" and the digits of raw.key.participant
\* when raw has one, of the jid otherwise
formatSenderNumber(jid, raw) ==
  IF IsSome(raw) /\ Get(raw).key.participant # NoJid
  THEN <<"+", Get(raw).key.participant.user>>
  ELSE <<"+", jid.user>>

\* buildWebhookPayload (lines 799-816): raw: message.raw || null
buildWebhookPayload(message) ==
  [id |-> message.id, fromJid |-> message.from,
   from |-> formatSenderNumber(message.from, message.raw),
   isGroup |-> message.isGroup, timestamp |-> message.timestamp,
   text |-> message.text, raw |-> message.raw]

\* history: raw and from of the payloads a batch posts, per message id
batchPosts(rows) ==
  [id \in {r.id : r \in rows} |->
     LET payload == buildWebhookPayload(rowToMessage(CHOOSE r \in rows : r.id = id))
     IN [raw |-> payload.raw, from |-> payload.from]]

\* A faulty target: the webhooks of the two categories are exchanged.
targetOfSwapped(webhooks, isGroup) == IF isGroup THEN webhooks.incoming ELSE webhooks.group

\* A faulty target: the other category's webhook when the own one is not set.
targetOfAny(webhooks, isGroup) ==
  IF isGroup THEN (IF webhooks.group # NULL THEN webhooks.group ELSE webhooks.incoming)
  ELSE (IF webhooks.incoming # NULL THEN webhooks.incoming ELSE webhooks.group)

\* const target = entry.isGroup ? webhooks.group : webhooks.incoming
targetOf(webhooks, isGroup) == IF isGroup THEN webhooks.group ELSE webhooks.incoming

\* A faulty target: m.pendingWebhook || webhook || null
retryTargetOwnFirst(webhook, m) ==
  IF m.pending_webhook # NULL THEN m.pending_webhook ELSE webhook

\* const target = webhook || m.pendingWebhook || null
retryTarget(webhook, m) == IF webhook # NULL THEN webhook ELSE m.pending_webhook

(***************************************************************************)
(* index.js: handlers as functions of the state record                     *)
(***************************************************************************)
\* deleteSession (lines 888-902)
deleteSession(w, sessionId) ==
  LET w1 == IF IsSome(w.sockets[sessionId])
            THEN endSock(w, Get(w.sockets[sessionId]).sock) ELSE w
  IN [w1 EXCEPT !.sockets[sessionId] = None,
                !.sessions = deleteSessionRow(w.sessions, sessionId),
                !.messages = deleteCascade(w.messages, sessionId),
                !.folders = rmAuthFile(w.folders, sessionId)]

\* A faulty response: 404 for a session without runtime entry.
deleteResponseNotFound(w, sessionId) ==
  IF IsSome(w.sockets[sessionId]) THEN "success" ELSE "not found"

\* deleteSession: res.json({ success: true }), whatever the id
deleteResponse(w, sessionId) == "success"

\* A faulty close handler: two reconnect timers for one close event.
scheduleTwice(tm, sessionId) == [tm EXCEPT ![sessionId] = @ + 2]

\* A faulty close handler: no reconnect is scheduled.
scheduleNone(tm, sessionId) == tm

\* handleConnectionUpdate, connection === 'close', shouldReconnect:
\* setTimeout(() => this.startSession(sessionId), 5000)
scheduleReconnect(tm, sessionId) == [tm EXCEPT ![sessionId] = @ + 1]

\* A faulty teardown: the directory is left in place.
teardownKeepFolder(w, sessionId) ==
  [w EXCEPT !.sessions = deleteSessionRow(w.sessions, sessionId),
            !.messages = deleteCascade(w.messages, sessionId),
            !.sockets[sessionId] = None]

\* handleConnectionUpdate, connection === 'close', logged out (lines 485-492)
teardown(w, sessionId) ==
  [w EXCEPT !.sessions = deleteSessionRow(w.sessions, sessionId),
            !.messages = deleteCascade(w.messages, sessionId),
            !.folders = rmFolder(w.folders, sessionId),
            !.sockets[sessionId] = None]

\* handleConnectionUpdate (lines 468-525) for an event of handle h
handleConnectionUpdate(w, sessionId, connection) ==
  IF ~IsSome(w.sockets[sessionId]) THEN w
  ELSE LET s == Get(w.sockets[sessionId]) IN
    CASE connection = "close" ->
           [w EXCEPT !.sockets[sessionId] = Some([s EXCEPT !.isConnected = FALSE]),
                     !.timers = scheduleReconnect(w.timers, sessionId)]
      [] connection = "loggedOut" ->
           teardown(w, sessionId)
      [] connection = "open" ->
           LET fs1 == saveCreds(w.folders, sessionId, w.socks[s.sock].creds)
           IN [w EXCEPT !.sockets[sessionId] = Some([s EXCEPT !.isConnected = TRUE]),
                        !.folders = fs1,
                        !.sessions = saveSession(w.sessions, sessionId,
                                                 readFolder(fs1, sessionId))]
      [] OTHER ->  \* 'connecting', or an update that carries a qr
           [w EXCEPT !.sockets[sessionId] = Some([s EXCEPT !.isConnected = FALSE])]

\* A faulty handler: the directory is read before saveCreds has written.
handleCredsUpdateReadFirst(w, sessionId, h) ==
  [w EXCEPT !.folders = saveCreds(w.folders, sessionId, w.socks[h].creds),
            !.sessions = saveSession(w.sessions, sessionId, readFolder(w.folders, sessionId))]

\* the 'creds.update' handler of setupSocketEventHandlers (lines 431-453)
handleCredsUpdate(w, sessionId, h) ==
  LET fs1 == saveCreds(w.folders, sessionId, w.socks[h].creds)
  IN [w EXCEPT !.folders = fs1,
               !.sessions = saveSession(w.sessions, sessionId, readFolder(fs1, sessionId))]

\* A faulty folderHasMe: a creds.json in the directory counts, whatever it holds.
folderHasCredsFile(fs, id) == IsSome(fs[id]) /\ Get(fs[id])["creds.json"] # ABSENT

\* A faulty handler: a rejected db.saveSession ends the connection.
handleCredsUpdateDbDownAbort(w, sessionId, h) ==
  [endSock(w, h) EXCEPT !.folders = saveCreds(w.folders, sessionId, w.socks[h].creds),
                        !.sockets[sessionId] = None]

\* the 'creds.update' handler when db.saveSession rejects: the catch of lines
\* 450-452 logs the error
handleCredsUpdateDbDown(w, sessionId, h) ==
  [w EXCEPT !.folders = saveCreds(w.folders, sessionId, w.socks[h].creds)]

\* handleConnectionUpdate, connection === 'open', when db.saveSession rejects:
\* the .catch of line 514 logs the error
handleOpenDbDown(w, sessionId) ==
  IF ~IsSome(w.sockets[sessionId]) THEN w
  ELSE LET s == Get(w.sockets[sessionId])
       IN [w EXCEPT !.sockets[sessionId] = Some([s EXCEPT !.isConnected = TRUE]),
                    !.folders = saveCreds(w.folders, sessionId, w.socks[s.sock].creds)]

\* restoreSessions (lines 38-112): the sessions it starts, and the durable
\* table after its imports from the filesystem
folderHasMe(fs, id) == IsSome(fs[id]) /\ hasMe(Get(fs[id]))

\* A faulty hasCreds: the presence of a saved blob counts as credentials.
hasCredsAnyBlob(w, id) ==
  \/ IsSome(loadSession(w.sessions, id))
  \/ folderHasMe(w.folders, id)

hasCreds(w, id) ==
  \/ IsSome(loadSession(w.sessions, id)) /\ hasMe(Get(loadSession(w.sessions, id)))
  \/ folderHasMe(w.folders, id)

\* A faulty restoreSessions: only sessions with a directory on disk are started.
toRestoreFromDisk(w) == {id \in SessionIds : folderHasMe(w.folders, id)}

toRestore(w) ==
  {id \in SessionIds :
     IF id \in listSessions(w.sessions) THEN hasCreds(w, id)
     ELSE folderHasMe(w.folders, id)}

\* the ids whose folder contents restoreSessions saves into the table
toImport(w) ==
  {id \in SessionIds :
     /\ folderHasMe(w.folders, id)
     /\ ~(IsSome(loadSession(w.sessions, id)) /\ hasMe(Get(loadSession(w.sessions, id))))}

RECURSIVE importAll(_, _, _)
importAll(tbl, fs, ids) ==
  IF ids = {} THEN tbl
  ELSE LET id == CHOOSE x \in ids : TRUE
       IN importAll(saveSession(tbl, id, readFolder(fs, id)), fs, ids \ {id})

restoreSessions(w) ==
  startAll([w EXCEPT !.sessions = importAll(w.sessions, w.folders, toImport(w))],
           toRestore(w))

(***************************************************************************)
(* index.js: requests that go to the protocol handle                       *)
(***************************************************************************)
Digits == {"0", "1", "2", "3", "4", "5", "6", "7", "8", "9"}
IsDigit(c) == c \in Digits

\* A faulty cleanNumber: the non-digit characters are not stripped.
cleanNumberRaw(number) == number

\* number.replace(/\D/g, '')
cleanNumber(number) == SelectSeq(number, IsDigit)

\* cleanNumber.length < 10 || cleanNumber.length > 15
MinDigits == 10
MaxDigits == 15

\* what a handler answers and the calls it made on the protocol handle
Reply(status, error, calls) == [status |-> status, error |-> error, calls |-> calls]

\* handlePairRequest (lines 598-642); number: the characters of the string, <<>>
\* for a number that is missing or empty; up: requestPairingCode does not throw
handlePairRequest(w, sessionId, number, up) ==
  IF number = <<>>
  THEN Reply(400, "Valid phone number is required", {})
  ELSE IF Len(cleanNumber(number)) < MinDigits \/ Len(cleanNumber(number)) > MaxDigits
  THEN Reply(400, "Phone number must be between 10-15 digits", {})
  ELSE IF ~IsSome(w.sockets[sessionId])
  THEN Reply(503, "Session is not initialized or not running", {})
  ELSE LET call == [sock |-> Get(w.sockets[sessionId]).sock,
                    call |-> "requestPairingCode", arg |-> cleanNumber(number)]
       IN IF up THEN Reply(200, NULL, {call})
          ELSE Reply(500, "Failed to request pairing code", {call})

\* sendMessage (lines 714-740); net: what the protocol layer does with the
\* request: "sent", "unregistered" (onWhatsApp: exists is false), "error"
sendMessage(w, sessionId, jid, text, net) ==
  LET s == w.sockets[sessionId]
      h == Get(s).sock
      look == [sock |-> h, call |-> "onWhatsApp", arg |-> jid]
      send == [sock |-> h, call |-> "sendMessage", arg |-> jid]
  IN IF ~IsSome(s) \/ ~Get(s).isConnected THEN Reply(500, "Failed to send message", {})
     ELSE IF net = "unregistered" THEN Reply(500, "Failed to send message", {look})
     ELSE IF net = "error" THEN Reply(500, "Failed to send message", {look, send})
     ELSE Reply(200, NULL, {look, send})

\* A faulty handleSendMessage: no test of isConnected before sendMessage.
handleSendMessageNoGate(w, sessionId, to, message, net) ==
  IF to = NULL \/ message = NULL
  THEN Reply(400, "Both to and message fields are required", {})
  ELSE IF ~IsSome(w.sockets[sessionId]) THEN Reply(503, "Session not found", {})
  ELSE sendMessage(w, sessionId, to, message, net)

\* handleSendMessage (lines 644-674)
handleSendMessage(w, sessionId, to, message, net) ==
  IF to = NULL \/ message = NULL
  THEN Reply(400, "Both to and message fields are required", {})
  ELSE IF ~IsSome(w.sockets[sessionId]) THEN Reply(503, "Session not found", {})
  ELSE IF ~Get(w.sockets[sessionId]).isConnected
  THEN Reply(503, "WhatsApp is not connected for this session", {})
  ELSE sendMessage(w, sessionId, to, message, net)

(***************************************************************************)
(* The state machine                                                       *)
(***************************************************************************)
\* the state a handler leaves, w evaluated once
Commit(w) ==
  \E v \in {w} :
    /\ sessions' = v.sessions
    /\ messages' = v.messages
    /\ folders'  = v.folders
    /\ sockets'  = v.sockets
    /\ socks'    = Collect(v).socks
    /\ timers'   = v.timers

Quiet == [op |-> "-", sid |-> "-", res |-> "-"]
Done(op, sid, res) == last' = [op |-> op, sid |-> sid, res |-> res]

Stored(msgs, sessionId, id) == \E r \in msgs : r.id = id /\ r.session_id = sessionId

\* No message with an id of ids has reached the bound on recorded attempts.
CanAttempt(ids) == \A r \in messages : r.id \in ids => r.delivery_attempts < MaxAttempts

NoAttempt == [n |-> 0, last |-> "none"]

\* history: one more POST for each stored message (sessionId, id), id in ids
Count(sessionId, ids, target, ok) ==
  [p \in SessionIds \X MsgIds |->
     IF p[1] = sessionId /\ p[2] \in ids
     THEN [n |-> attempted[p].n + 1, last |-> IF ok[p[2]] THEN "ok" ELSE target[p[2]]]
     ELSE attempted[p]]

\* history: the rows of a deleted session are gone, and with them their counts
Forget(sessionId) ==
  [p \in SessionIds \X MsgIds |-> IF p[1] = sessionId THEN NoAttempt ELSE attempted[p]]

Init ==
  /\ sessions = [id \in SessionIds |-> None]
  /\ messages = {}
  /\ folders  = [id \in SessionIds |-> None]
  /\ sockets  = [id \in SessionIds |-> None]
  /\ socks    = [h \in Handles |-> FreeSock]
  /\ timers   = [id \in SessionIds |-> 0]
  /\ restored = FALSE
  /\ restarts = 0
  /\ usedIds  = {}
  /\ stale    = [id \in SessionIds |-> 0]
  /\ loggedOut = {}
  /\ attempted = [p \in SessionIds \X MsgIds |-> NoAttempt]
  /\ inflight = {}
  /\ persisting = {}
  /\ last     = Quiet

\* The durable sessions restoreAll() has to restore: a credential blob with the
\* identity marker and no runtime entry.
Restorable == {id \in SessionIds : /\ IsSome(sessions[id])
                                   /\ IsSome(Get(sessions[id]).auth_json)
                                   /\ Get(Get(sessions[id]).auth_json)["creds.json"] = CredsMe
                                   /\ ~IsSome(sockets[id])}

\* constructor: db.init().then(() => this.restoreSessions())
RestoreSessions ==
  /\ ~restored
  /\ Cardinality(FreeHandles(World)) >= Cardinality(toRestore(World))
  /\ Commit(restoreSessions(World))
  /\ restored' = TRUE
  /\ Done("restore", "-", Restorable)
  /\ UNCHANGED <<restarts, usedIds, stale, loggedOut, attempted, inflight, persisting>>

\* const id = uuidv4()
NewId == CHOOSE id \in SessionIds \ usedIds : TRUE

\* err.message of a startSession that throws
StartError == "Failed to start session"

\* A faulty createSession: a startSession that throws fails the request.
createResponseFail(id, ok) ==
  IF ok THEN [status |-> 201, id |-> id, initialized |-> TRUE, error |-> NULL]
  ELSE [status |-> 500, id |-> NULL, initialized |-> FALSE, error |-> StartError]

\* createSession: res.status(201).json({ id, initialized: exists }) or, in the
\* inner catch, res.status(201).json({ id, initialized: false, error: err.message })
createResponse(id, ok) ==
  IF ok THEN [status |-> 201, id |-> id, initialized |-> TRUE, error |-> NULL]
  ELSE [status |-> 201, id |-> id, initialized |-> FALSE, error |-> StartError]

\* POST /sessions (createSession, lines 404-427); ok: startSession does not throw
CreateSession(ok) ==
  /\ restored
  /\ SessionIds \ usedIds # {}
  /\ FreeHandles(World) # {}
  /\ LET w1 == [World EXCEPT !.folders = ensureFolder(folders, NewId),
                             !.sessions = saveSession(sessions, NewId, NoFiles)]
     IN IF ok THEN Commit(startSession(w1, NewId)) ELSE Commit(w1)
  /\ usedIds' = usedIds \cup {NewId}
  /\ Done("create", NewId, createResponse(NewId, ok))
  /\ UNCHANGED <<restored, restarts, stale, loggedOut, attempted, inflight, persisting>>

\* DELETE /sessions/:id (deleteSession, lines 888-902)
DeleteSession(id) ==
  /\ restored
  /\ Commit(deleteSession(World, id))
  /\ Done("delete", id, deleteResponse(World, id))
  /\ stale' = [stale EXCEPT ![id] = timers[id]]
  /\ attempted' = Forget(id)
  /\ UNCHANGED <<restored, restarts, usedIds, loggedOut, inflight, persisting>>

\* the reconnect timer of a close event fires: startSession(sessionId)
ReconnectTimer(id) ==
  /\ restored
  /\ timers[id] > 0
  /\ FreeHandles(World) # {}
  /\ Commit(startSession([World EXCEPT !.timers[id] = @ - 1], id))
  /\ Done("timer", id, IF stale[id] > 0 THEN "stale" ELSE "fresh")
  /\ stale' = [stale EXCEPT ![id] = IF @ > 0 THEN @ - 1 ELSE 0]
  /\ UNCHANGED <<restored, restarts, usedIds, loggedOut, attempted, inflight, persisting>>

\* 'connection.update' of handle h: connecting | qr | open | close | loggedOut
\* (close with lastDisconnect statusCode DisconnectReason.loggedOut)
ConnectionUpdate(h, connection) ==
  /\ restored
  /\ socks[h].st \in {"connecting", "open"}
  /\ connection \in {"connecting", "qr", "open"} => socks[h].st = "connecting"
  /\ LET st1 == CASE connection \in {"close", "loggedOut"} -> "closed"
                  [] connection = "open" -> "open"
                  [] OTHER -> socks[h].st
         w1  == [World EXCEPT !.socks[h].st = st1]
         sid == socks[h].sid
         torn == connection = "loggedOut" /\ IsSome(sockets[sid])
     IN /\ Commit(handleConnectionUpdate(w1, sid, connection))
        /\ attempted' = IF torn THEN Forget(sid) ELSE attempted
        /\ loggedOut' = IF torn THEN loggedOut \cup {sid} ELSE loggedOut
  /\ last' = Quiet
  /\ UNCHANGED <<restored, restarts, usedIds, stale, inflight, persisting>>

\* 'creds.update' of handle h; paired: the update carries the "me" identity
CredsUpdate(h, paired) ==
  /\ restored
  /\ socks[h].st \in {"connecting", "open"}
  /\ LET w1 == [World EXCEPT !.socks[h].creds = IF paired THEN CredsMe ELSE @]
     IN Commit(handleCredsUpdate(w1, socks[h].sid, h))
  /\ last' = Quiet
  /\ UNCHANGED <<restored, restarts, usedIds, stale, loggedOut, attempted, inflight, persisting>>

\* 'creds.update' of handle h while the database rejects the save
CredsUpdateDbDown(h, paired) ==
  /\ restored
  /\ socks[h].st \in {"connecting", "open"}
  /\ LET w1 == [World EXCEPT !.socks[h].creds = IF paired THEN CredsMe ELSE @]
     IN Commit(handleCredsUpdateDbDown(w1, socks[h].sid, h))
  /\ last' = Quiet
  /\ UNCHANGED <<restored, restarts, usedIds, stale, loggedOut, attempted, inflight, persisting>>

\* 'connection.update' open of handle h while the database rejects the save
OpenDbDown(h) ==
  /\ restored
  /\ socks[h].st = "connecting"
  /\ Commit(handleOpenDbDown([World EXCEPT !.socks[h].st = "open"], socks[h].sid))
  /\ last' = Quiet
  /\ UNCHANGED <<restored, restarts, usedIds, stale, loggedOut, attempted, inflight, persisting>>

\* 'creds.update' of handle h up to the await of db.saveSession (lines 431-448):
\* saveCreds, then the files of the directory are read into out
CredsCapture(h, paired) ==
  /\ restored
  /\ socks[h].st \in {"connecting", "open"}
  /\ LET creds == IF paired THEN CredsMe ELSE socks[h].creds
         fs1   == saveCreds(folders, socks[h].sid, creds)
     IN /\ socks' = [socks EXCEPT ![h].creds = creds]
        /\ folders' = fs1
        /\ persisting' = persisting \cup {[sid |-> socks[h].sid,
                                           out |-> readFolder(fs1, socks[h].sid)]}
  /\ last' = Quiet
  /\ UNCHANGED <<sessions, messages, sockets, timers, restored, restarts,
                 usedIds, stale, loggedOut, attempted, inflight>>

\* an awaited db.saveSession(sessionId, out) of a creds.update handler runs
\* (line 449); the saves of concurrent handlers use connections of the pool
\* of their own and run in any order
CredsPersist(p) ==
  /\ p \in persisting
  /\ sessions' = saveSession(sessions, p.sid, p.out)
  /\ persisting' = persisting \ {p}
  /\ Done("persisted", p.sid, "-")
  /\ UNCHANGED <<messages, folders, sockets, socks, timers, restored, restarts,
                 usedIds, stale, loggedOut, attempted, inflight>>

\* POST /sessions/:id/sync (syncSession, lines 676-692)
SyncSession(sessionId) ==
  /\ restored
  /\ sessions' = IF IsSome(folders[sessionId])
                 THEN saveSession(sessions, sessionId, readFolder(folders, sessionId))
                 ELSE sessions
  /\ last' = Quiet
  /\ UNCHANGED <<messages, folders, sockets, socks, timers, restored, restarts,
                 usedIds, stale, loggedOut, attempted, inflight, persisting>>

\* The process exits and is started again: the map, the handles and the timers
\* are gone, the database stays; wipe: the filesystem of the host is not kept.
Restart(wipe) ==
  /\ restored
  /\ restarts < MaxRestarts
  /\ restarts' = restarts + 1
  /\ restored' = FALSE
  /\ sockets'  = [id \in SessionIds |-> None]
  /\ socks'    = [h \in Handles |-> FreeSock]
  /\ timers'   = [id \in SessionIds |-> 0]
  /\ stale'    = [id \in SessionIds |-> 0]
  /\ folders'  = IF wipe THEN [id \in SessionIds |-> None] ELSE folders
  /\ persisting' = {}
  /\ last' = Quiet
  /\ UNCHANGED <<sessions, messages, usedIds, loggedOut, attempted, inflight>>

\* 'messages.upsert' of handle h (handleIncomingMessages, lines 527-595) for one
\* message; ok: the webhook answers 2xx
MessagesUpsert(h, message, ok) ==
  /\ restored
  /\ socks[h].st = "open"
  /\ LET sessionId == socks[h].sid
         entry     == entryOf(message)
         msgs1     == saveMessage(messages, sessions, sessionId, entry)
         target    == targetOf(loadWebhooks(sessions, sessionId), entry.isGroup)
     IN IF message.key.fromMe \/ message.message = NULL
        THEN /\ UNCHANGED <<messages, attempted>>
             /\ last' = Quiet
        ELSE /\ target # NULL => CanAttempt({entry.id})
             /\ messages' = IF target # NULL
                            THEN recordAttempt(msgs1, entry.id, target, ok) ELSE msgs1
             /\ attempted' = IF target # NULL /\ Stored(msgs1, sessionId, entry.id)
                             THEN Count(sessionId, {entry.id},
                                        [x \in MsgIds |-> target], [x \in MsgIds |-> ok])
                             ELSE attempted
             /\ last' = IF Stored(messages, sessionId, entry.id)
                        THEN [op |-> "upsert", sid |-> sessionId, res |-> "duplicate"]
                        ELSE Quiet
  /\ UNCHANGED <<sessions, folders, sockets, socks, timers, restored, restarts,
                 usedIds, stale, loggedOut, inflight, persisting>>

\* the bodies POST /sessions/:id/webhooks is called with
WebhookBodies ==
  { [incoming |-> UrlIncoming, group |-> g, status |-> NULL] : g \in {NULL, UrlGroup} }

\* POST /sessions/:id/webhooks (lines 238-287) with its backlog scan
PostWebhooks(sessionId, payload) ==
  \E ok \in [{ m.id : m \in getUndeliveredMessages(messages, sessionId, NULL) } -> BOOLEAN] :
  LET pending1 == IF payload.incoming # NULL
                  THEN {m \in getUndeliveredMessages(messages, sessionId, NULL) : ~m.is_group}
                  ELSE {}
      ids1     == {m.id : m \in pending1}
      msgs1    == attemptAll(messages, ids1, [x \in MsgIds |-> payload.incoming], ok)
      pending2 == IF payload.group # NULL
                  THEN {m \in getUndeliveredMessages(msgs1, sessionId, NULL) : m.is_group}
                  ELSE {}
      ids2     == {m.id : m \in pending2}
  IN /\ restored
     /\ CanAttempt(ids1 \cup ids2)
     /\ sessions' = saveWebhooks(sessions, sessionId, payload)
     /\ messages' = attemptAll(msgs1, ids2, [x \in MsgIds |-> payload.group], ok)
     /\ attempted' = Count(sessionId, ids1 \cup ids2,
                           [x \in MsgIds |-> IF x \in ids1 THEN payload.incoming
                                             ELSE payload.group], ok)
     /\ usedIds' = usedIds \cup {sessionId}
     /\ last' = Quiet
     /\ UNCHANGED <<folders, sockets, socks, timers, restored, restarts, stale, loggedOut, inflight, persisting>>

\* typeof field === 'undefined': the field is not in the body
Absent == "undefined"

\* if (typeof incoming !== 'undefined') merged.incoming = incoming; ... (297-300)
mergeWebhooks(existing, body) ==
  [k \in {"incoming", "group", "status"} |->
     IF body[k] # Absent THEN body[k] ELSE existing[k]]

\* the bodies PATCH /sessions/:id/webhooks is called with
PatchBodies ==
  { [incoming |-> i, group |-> g, status |-> Absent] :
      i \in {Absent, UrlIncoming}, g \in {Absent, UrlGroup, NULL} }

\* PATCH /sessions/:id/webhooks (lines 290-306): load, merge, save, respond
PatchWebhooks(sessionId, body) ==
  /\ restored
  /\ sessions' = saveWebhooks(sessions, sessionId,
                              mergeWebhooks(loadWebhooks(sessions, sessionId), body))
  /\ usedIds' = usedIds \cup {sessionId}
  /\ last' = Quiet
  /\ UNCHANGED <<messages, folders, sockets, socks, timers, restored, restarts,
                 stale, loggedOut, attempted, inflight, persisting>>

\* POST /sessions/:id/forward (lines 332-355); ids = {}: no ids in the body
Forward(sessionId, webhook, ids) ==
  LET rows == IF ids # {} THEN getMessagesByIds(messages, ids, sessionId)
              ELSE getMessages(messages, sessionId, ForwardLimit)
      sel  == {m.id : m \in rows}
  IN \E ok \in [sel -> BOOLEAN] :
     /\ restored
     /\ CanAttempt(sel)
     /\ messages' = attemptAll(messages, sel, [x \in MsgIds |-> webhook], ok)
     /\ attempted' = Count(sessionId, sel, [x \in MsgIds |-> webhook], ok)
     /\ last' = [op |-> "forward", sid |-> sessionId,
                 res |-> batchResults(sel, [x \in MsgIds |-> webhook], ok),
                 posts |-> batchPosts(rows)]
     /\ UNCHANGED <<sessions, folders, sockets, socks, timers, restored, restarts,
                    usedIds, stale, loggedOut, inflight, persisting>>

\* POST /sessions/:id/forward/retry (lines 370-397); webhook = NULL: none given
RetryForward(sessionId, ids, webhook) ==
  LET rows == IF ids # {} THEN getMessagesByIds(messages, ids, sessionId)
              ELSE getUndeliveredMessages(messages, sessionId, webhook)
      tgt  == [x \in MsgIds |->
                 IF \E m \in rows : m.id = x
                 THEN retryTarget(webhook, CHOOSE m \in rows : m.id = x) ELSE NULL]
      sel  == {m.id : m \in {r \in rows : tgt[r.id] # NULL}}
  IN \E ok \in [sel -> BOOLEAN] :
     /\ restored
     /\ CanAttempt(sel)
     /\ messages' = attemptAll(messages, sel, tgt, ok)
     /\ attempted' = Count(sessionId, sel, tgt, ok)
     /\ last' = [op |-> "retry", sid |-> sessionId,
                 res |-> batchResults({m.id : m \in rows}, tgt,
                                      [x \in MsgIds |-> IF x \in sel THEN ok[x] ELSE FALSE]),
                 posts |-> batchPosts({r \in rows : tgt[r.id] # NULL})]
     /\ UNCHANGED <<sessions, folders, sockets, socks, timers, restored, restarts,
                    usedIds, stale, loggedOut, inflight, persisting>>

\* POST /sessions/:id/send-message (handleSendMessage, lines 644-674)
SendMessage(sessionId, to, message, net) ==
  /\ restored
  /\ Done("send", sessionId, handleSendMessage(World, sessionId, to, message, net))
  /\ UNCHANGED <<sessions, messages, folders, sockets, socks, timers, restored,
                 restarts, usedIds, stale, loggedOut, attempted, inflight, persisting>>

\* POST /sessions/:id/pair-request (handlePairRequest, lines 598-642)
PairRequest(sessionId, number, up) ==
  /\ restored
  /\ Done("pair", sessionId, handlePairRequest(World, sessionId, number, up))
  /\ UNCHANGED <<sessions, messages, folders, sockets, socks, timers, restored,
                 restarts, usedIds, stale, loggedOut, attempted, inflight, persisting>>

\* Requests whose POSTs are awaited while other handlers run: a POST in flight
\* is [tag, sid, id, target, seen], seen being m.deliveryAttempts of the row m
\* the handler fetched.
Tags == 1..MaxAttempts

InFlight(id) == {p \in inflight : p.id = id}

FreeTag(id) == CHOOSE t \in Tags : /\ \A p \in InFlight(id) : p.tag # t
                                   /\ \A u \in Tags : u < t => \E p \in InFlight(id) : p.tag = u

\* No message with an id of ids reaches the bound on attempts with one more POST.
CanBegin(ids) ==
  \A r \in messages :
    r.id \in ids => r.delivery_attempts + Cardinality(InFlight(r.id)) < MaxAttempts

\* the POSTs a handler starts for the rows it fetched
postsOf(rows, sessionId, target) ==
  { [tag |-> FreeTag(m.id), sid |-> sessionId, id |-> m.id, target |-> target[m.id],
     seen |-> m.delivery_attempts] : m \in rows }

\* POST /sessions/:id/forward (lines 332-343) up to its calls of postToWebhook
ForwardBegin(sessionId, webhook, ids) ==
  LET rows == getMessagesByIds(messages, ids, sessionId)
  IN /\ restored
     /\ rows # {}
     /\ CanBegin(ids)
     /\ inflight' = inflight \cup postsOf(rows, sessionId, [x \in MsgIds |-> webhook])
     /\ last' = Quiet
     /\ UNCHANGED <<sessions, messages, folders, sockets, socks, timers, restored,
                    restarts, usedIds, stale, loggedOut, attempted, persisting>>

\* POST /sessions/:id/webhooks (lines 238-283) up to the calls of postToWebhook
\* of its scan; the scan awaits its POSTs one after the other, here they return
\* in any order
ScanBegin(sessionId, payload) ==
  LET rows == {m \in getUndeliveredMessages(messages, sessionId, NULL) :
                 targetOf(payload, m.is_group) # NULL}
  IN /\ restored
     /\ rows # {}
     /\ CanBegin({m.id : m \in rows})
     /\ sessions' = saveWebhooks(sessions, sessionId, payload)
     /\ inflight' = inflight \cup
          postsOf(rows, sessionId,
                  [x \in MsgIds |-> IF \E m \in rows : m.id = x /\ m.is_group
                                    THEN payload.group ELSE payload.incoming])
     /\ last' = Quiet
     /\ UNCHANGED <<messages, folders, sockets, socks, timers, restored, restarts,
                    usedIds, stale, loggedOut, attempted, persisting>>

\* A faulty record: the counter is written as the fetched value plus one.
recordReturnStale(msgs, p, ok) ==
  { IF r.id = p.id THEN [r EXCEPT !.delivery_attempts = p.seen + 1] ELSE r :
      r \in recordAttempt(msgs, p.id, p.target, ok) }

\* the try/catch around an awaited postToWebhook (lines 262-266, 342-348): one
\* db.updateMessageDelivery(m.id, ...) when the POST has returned
recordReturn(msgs, p, ok) == recordAttempt(msgs, p.id, p.target, ok)

\* the POST p returns; ok: with a 2xx response
PostReturns(p, ok) ==
  /\ restored
  /\ p \in inflight
  /\ messages' = recordReturn(messages, p, ok)
  /\ attempted' = Count(p.sid, {p.id}, [x \in MsgIds |-> p.target], [x \in MsgIds |-> ok])
  /\ inflight' = inflight \ {p}
  /\ Done("returned", p.sid, p.id)
  /\ UNCHANGED <<sessions, folders, sockets, socks, timers, restored, restarts,
                 usedIds, stale, loggedOut, persisting>>

(***************************************************************************)
(* Specifications.  The session handlers never read the message table,     *)
(* and the message handlers read of a session only its row and whether a   *)
(* handle of it is open: Spec runs the session lifecycle, LedgerSpec the    *)
(* message ledger of two sessions that are connected.                      *)
(***************************************************************************)
Next ==
  \/ RestoreSessions
  \/ \E ok \in BOOLEAN : CreateSession(ok)
  \/ \E id \in SessionIds : DeleteSession(id)
  \/ \E id \in SessionIds : ReconnectTimer(id)
  \/ \E h \in Handles, c \in {"connecting", "qr", "open", "close", "loggedOut"} :
       ConnectionUpdate(h, c)
  \/ \E h \in Handles, paired \in BOOLEAN : CredsUpdate(h, paired)
  \/ \E id \in SessionIds : SyncSession(id)
  \/ \E id \in SessionIds : PostWebhooks(id, NoWebhooks)
  \/ \E wipe \in BOOLEAN : Restart(wipe)

Spec == Init /\ [][Next]_vars

\* Both sessions created, paired and connected (a state Spec reaches).
Paired == [f \in Files |-> CredsMe]

Established ==
  /\ sessions = [id \in SessionIds |-> Some([EmptyRow EXCEPT !.auth_json = Some(Paired)])]
  /\ folders  = [id \in SessionIds |-> Some(Paired)]
  /\ sockets  = [id \in SessionIds |->
                   Some([sock |-> IF id = "A" THEN 1 ELSE 2, isConnected |-> TRUE])]
  /\ socks    = [h \in Handles |->
                   IF h = 1 THEN [sid |-> "A", st |-> "open", creds |-> CredsMe]
                   ELSE IF h = 2 THEN [sid |-> "B", st |-> "open", creds |-> CredsMe]
                   ELSE FreeSock]
  /\ timers   = [id \in SessionIds |-> 0]
  /\ restored = TRUE
  /\ usedIds  = SessionIds

LedgerInit ==
  /\ Established
  /\ messages = {}
  /\ restarts = 0
  /\ stale    = [id \in SessionIds |-> 0]
  /\ loggedOut = {}
  /\ attempted = [p \in SessionIds \X MsgIds |-> NoAttempt]
  /\ inflight = {}
  /\ persisting = {}
  /\ last     = Quiet

\* The messages that reach a session: account A receives every message, account
\* B is a member of the group of A and receives the group message m1.
Inbound(sid) ==
  IF sid = "A" THEN InboundEvents
  ELSE {m \in InboundEvents : m.key.id = "m1" /\ m.key.remoteJid = GroupJid}

LedgerNext ==
  \/ \E h \in Handles, ok \in BOOLEAN : \E m \in Inbound(socks[h].sid) :
       MessagesUpsert(h, m, ok)
  \/ \E id \in SessionIds, p \in WebhookBodies : PostWebhooks(id, p)
  \/ \E id \in SessionIds, ids \in SUBSET MsgIds : Forward(id, UrlForward, ids)
  \/ \E id \in SessionIds, ids \in SUBSET MsgIds, u \in {NULL, UrlForward} :
       RetryForward(id, ids, u)
  \/ \E id \in SessionIds : DeleteSession(id)
  \/ \E h \in Handles : ConnectionUpdate(h, "loggedOut")

LedgerSpec == LedgerInit /\ [][LedgerNext]_vars

\* Spec without process restarts, with the timer callbacks that setTimeout
\* runs once their delay is over.
NextLive ==
  \/ RestoreSessions
  \/ \E ok \in BOOLEAN : CreateSession(ok)
  \/ \E id \in SessionIds : DeleteSession(id)
  \/ \E id \in SessionIds : ReconnectTimer(id)
  \/ \E h \in Handles, c \in {"connecting", "qr", "open", "close", "loggedOut"} :
       ConnectionUpdate(h, c)
  \/ \E h \in Handles, paired \in BOOLEAN : CredsUpdate(h, paired)
  \/ \E id \in SessionIds : SyncSession(id)
  \/ \E id \in SessionIds : PostWebhooks(id, NoWebhooks)

LiveSpec ==
  /\ Init
  /\ [][NextLive]_vars
  /\ \A id \in SessionIds : WF_vars(ReconnectTimer(id))

\* The message ledger of two connected sessions that are not removed.
BatchNext ==
  \/ \E h \in Handles, ok \in BOOLEAN : \E m \in Inbound(socks[h].sid) :
       MessagesUpsert(h, m, ok)
  \/ \E id \in SessionIds, p \in WebhookBodies : PostWebhooks(id, p)
  \/ \E id \in SessionIds, ids \in SUBSET MsgIds : Forward(id, UrlForward, ids)
  \/ \E id \in SessionIds, ids \in SUBSET MsgIds, u \in {NULL, UrlForward} :
       RetryForward(id, ids, u)

BatchSpec == LedgerInit /\ [][BatchNext]_vars

\* The message ledger with the two requests that save a webhook config.
WebhookNext ==
  \/ \E h \in Handles, ok \in BOOLEAN : \E m \in Inbound(socks[h].sid) :
       MessagesUpsert(h, m, ok)
  \/ \E id \in SessionIds, p \in WebhookBodies : PostWebhooks(id, p)
  \/ \E id \in SessionIds, b \in PatchBodies : PatchWebhooks(id, b)

WebhookSpec == LedgerInit /\ [][WebhookNext]_vars

\* The message ledger with forward requests and backlog scans whose POSTs are
\* awaited while other requests and events are handled.
RaceNext ==
  \/ \E h \in Handles, ok \in BOOLEAN : \E m \in Inbound(socks[h].sid) :
       MessagesUpsert(h, m, ok)
  \/ \E id \in SessionIds, ids \in (SUBSET MsgIds) \ {{}} : ForwardBegin(id, UrlForward, ids)
  \/ \E id \in SessionIds, p \in WebhookBodies : ScanBegin(id, p)
  \/ \E p \in inflight, ok \in BOOLEAN : PostReturns(p, ok)

RaceSpec == LedgerInit /\ [][RaceNext]_vars

\* The message ledger of two sessions whose webhook configs name different
\* targets for each category and a status target.
UrlStatus == "http://hook/status"

UrlOf(sessionId, isGroup) ==
  IF sessionId = "A" THEN (IF isGroup THEN UrlGroup ELSE UrlIncoming)
  ELSE (IF isGroup THEN "http://hook/b/group" ELSE "http://hook/b/incoming")

RouteBodies(sessionId) ==
  { [incoming |-> i, group |-> g, status |-> UrlStatus] :
      i \in {NULL, UrlOf(sessionId, FALSE)}, g \in {NULL, UrlOf(sessionId, TRUE)} }

RouteNext ==
  \/ \E h \in Handles, ok \in BOOLEAN : \E m \in Inbound(socks[h].sid) :
       MessagesUpsert(h, m, ok)
  \/ \E id \in SessionIds : \E p \in RouteBodies(id) : PostWebhooks(id, p)

RouteSpec == LedgerInit /\ [][RouteNext]_vars

\* The session lifecycle, process restarts included, with a database that
\* rejects saves of credentials from time to time.
FaultNext ==
  \/ RestoreSessions
  \/ \E ok \in BOOLEAN : CreateSession(ok)
  \/ \E id \in SessionIds : DeleteSession(id)
  \/ \E id \in SessionIds : ReconnectTimer(id)
  \/ \E h \in Handles, c \in {"connecting", "qr", "open", "close", "loggedOut"} :
       ConnectionUpdate(h, c)
  \/ \E h \in Handles, paired \in BOOLEAN : CredsUpdate(h, paired)
  \/ \E h \in Handles, paired \in BOOLEAN : CredsUpdateDbDown(h, paired)
  \/ \E h \in Handles : OpenDbDown(h)
  \/ \E wipe \in BOOLEAN : Restart(wipe)

FaultSpec == Init /\ [][FaultNext]_vars

\* The session lifecycle with creds.update handlers that run concurrently:
\* the capture and the save of a handler are two steps.
CredsNext ==
  \/ RestoreSessions
  \/ \E ok \in BOOLEAN : CreateSession(ok)
  \/ \E id \in SessionIds : DeleteSession(id)
  \/ \E id \in SessionIds : ReconnectTimer(id)
  \/ \E h \in Handles, c \in {"connecting", "qr", "open", "close", "loggedOut"} :
       ConnectionUpdate(h, c)
  \/ \E h \in Handles, paired \in BOOLEAN : CredsCapture(h, paired)
  \/ \E p \in persisting : CredsPersist(p)

CredsSpec == Init /\ [][CredsNext]_vars

\* The functions of db.js that write the sessions table, called with every
\* value of their column.
Blobs == {NoFiles, [f \in Files |-> CredsNoMe], Paired}
Statuses == {[connected |-> TRUE], [connected |-> FALSE]}

DbCall(op, id, tbl) ==
  /\ sessions' = tbl
  /\ Done(op, id, "-")
  /\ UNCHANGED <<folders, sockets, socks, timers, restored, restarts,
                 usedIds, stale, loggedOut, attempted, inflight, persisting>>

DbSaveSession(id, authJson) ==
  /\ DbCall("saveSession", id, saveSession(sessions, id, authJson))
  /\ UNCHANGED messages

DbSaveWebhooks(id, webhooks) ==
  /\ DbCall("saveWebhooks", id, saveWebhooks(sessions, id, webhooks))
  /\ UNCHANGED messages

DbSaveLastStatus(id, lastStatus) ==
  /\ DbCall("saveLastStatus", id, saveLastStatus(sessions, id, lastStatus))
  /\ UNCHANGED messages

DbDeleteSession(id) ==
  /\ DbCall("deleteSession", id, deleteSessionRow(sessions, id))
  /\ messages' = deleteCascade(messages, id)

DbNext ==
  \/ \E id \in SessionIds, b \in Blobs : DbSaveSession(id, b)
  \/ \E id \in SessionIds, p \in WebhookBodies \cup {NoWebhooks} : DbSaveWebhooks(id, p)
  \/ \E id \in SessionIds, s \in Statuses : DbSaveLastStatus(id, s)
  \/ \E id \in SessionIds : DbDeleteSession(id)

DbSpec == Init /\ [][DbNext]_vars

\* The session lifecycle with the requests that use the protocol handle.
DigitsOf(n) == [i \in 1..n |-> "7"]

PhoneNumbers ==
  {<<>>, DigitsOf(5) \o <<"-">> \o DigitsOf(5)}
    \cup { <<"+">> \o DigitsOf(n) :
             n \in {MinDigits - 1, MinDigits, MaxDigits, MaxDigits + 1} }

\* the bodies { to, message } of send-message and what the protocol layer does
SendInputs == {NULL, "255700000001"} \X {NULL, "hi"} \X {"sent", "unregistered", "error"}

RequestNext ==
  \/ RestoreSessions
  \/ \E ok \in BOOLEAN : CreateSession(ok)
  \/ \E id \in SessionIds : DeleteSession(id)
  \/ \E id \in SessionIds : ReconnectTimer(id)
  \/ \E h \in Handles, c \in {"connecting", "qr", "open", "close", "loggedOut"} :
       ConnectionUpdate(h, c)
  \/ \E id \in SessionIds, i \in SendInputs : SendMessage(id, i[1], i[2], i[3])
  \/ \E id \in SessionIds, number \in PhoneNumbers, up \in BOOLEAN :
       PairRequest(id, number, up)

RequestSpec == Init /\ [][RequestNext]_vars

(***************************************************************************)
(* Properties                                                              *)
(***************************************************************************)
Core == <<sessions, messages, folders, sockets, socks, timers>>

Connected(id) ==
  /\ IsSome(sockets[id])
  /\ socks[Get(sockets[id]).sock].sid = id
  /\ socks[Get(sockets[id]).sock].st \in {"connecting", "open"}

\* C1: when delete(id) completed while a reconnect timer of id was pending, the
\* state the timer's callback leaves has no runtime entry of id and no open
\* handle of id.
C1_NoReconnectAfterDelete ==
  (last.op = "timer" /\ last.res = "stale") =>
     /\ ~IsSome(sockets[last.sid])
     /\ LiveHandles(World, last.sid) = {}

\* C2: the state delete(id) leaves has no runtime entry, no durable row and no
\* working-state directory of id.
C2_DeleteRemovesAll ==
  last.op = "delete" =>
     /\ ~IsSome(sockets[last.sid])
     /\ ~IsSome(sessions[last.sid])
     /\ ~IsSome(folders[last.sid])

\* C3: deliveryAttempts of every stored message equals the number of delivery
\* attempts made on that message of that session.
C3_AttemptsCounted ==
  \A r \in messages : r.delivery_attempts = attempted[<<r.session_id, r.id>>].n

\* C4: a message that is delivered has no pending webhook and no delivery error.
C4_DeliveredIsClean ==
  \A r \in messages :
    r.delivered => r.pending_webhook = NULL /\ r.last_delivery_error = NULL

C4_Witness ==
  \E r \in messages : r.delivered /\ r.delivery_attempts >= 2

Content(r) == <<r.session_id, r.from_jid, r.is_group, r.timestamp_ms, r.text, r.raw>>

\* C5: message ids are unique in the ledger, and an inbound message whose id the
\* session has stored (the step MessagesUpsert records as a duplicate) leaves
\* one row of that id, with the content it had.
C5_IngestIdempotent ==
  /\ [](\A r, q \in messages : r.id = q.id => r = q)
  /\ [][last'.op = "upsert" =>
         \A h \in Handles, m \in InboundEvents, ok \in BOOLEAN :
           (Stored(messages, socks[h].sid, m.key.id) /\ MessagesUpsert(h, m, ok)) =>
              /\ Cardinality({q \in messages' : q.id = m.key.id}) = 1
              /\ \A r \in messages : r.id = m.key.id =>
                   \E q \in messages' : q.id = r.id /\ Content(q) = Content(r)]_vars

C5_Witness ==
  /\ last.op = "upsert" /\ last.res = "duplicate"
  /\ \E r \in messages : r.session_id = last.sid /\ r.delivery_attempts >= 1

\* C6: a stored message whose last delivery attempt failed is undelivered, has
\* the failed target as pendingWebhook and is returned by queryUndelivered.
C6_FailureKept ==
  \A r \in messages :
    LET a == attempted[<<r.session_id, r.id>>]
    IN a.last \notin {"none", "ok"} =>
         /\ r.delivered = FALSE
         /\ r.pending_webhook = a.last
         /\ r \in getUndeliveredMessages(messages, r.session_id, NULL)

C8_ReconnectScheduled ==
  /\ [][\A h \in Handles :
          (ConnectionUpdate(h, "close") /\ IsSome(sockets[socks[h].sid])) =>
             timers' = [timers EXCEPT ![socks[h].sid] = @ + 1]]_vars
  /\ \A id \in SessionIds :
       (timers[id] > 0 /\ stale[id] = 0) ~>
          ((last.op = "timer" /\ last.sid = id /\ Connected(id)) \/ stale[id] > 0)

C8_Witness ==
  /\ last.op = "timer" /\ last.res = "fresh" /\ Connected(last.sid)
  /\ timers[last.sid] = 0

\* C9: restoreAll() leaves every durable session that had the identity marker
\* and no runtime entry with a runtime entry and exactly one open handle.
C9_RestoreStartsOne ==
  last.op = "restore" =>
    \A id \in last.res :
      /\ Connected(id)
      /\ Cardinality(LiveHandles(World, id)) = 1

C9_Witness == last.op = "restore" /\ last.res # {}

\* C10: delete(id) answers success; for an id without runtime entry and durable
\* row, and right after a delete(id), it changes nothing.
C10_DeleteIdempotent ==
  [][\A id \in SessionIds :
       DeleteSession(id) =>
         /\ last'.res = "success"
         /\ ( \/ (~IsSome(sockets[id]) /\ ~IsSome(sessions[id]))
              \/ (last.op = "delete" /\ last.sid = id) ) => UNCHANGED Core]_vars

C10_Witness ==
  /\ last.op = "delete" /\ last.res = "success"
  /\ last.sid \notin usedIds

\* C11: send-message with a recipient and a text calls the handle's send only
\* for a session with a runtime entry that is connected; for a session with an
\* entry that is not connected it answers "not connected" and calls nothing on
\* the handle.
C11_SendNeedsConnected ==
  [][last'.op = "send" =>
       \A id \in {last'.sid}, i \in SendInputs :
         (i[1] # NULL /\ i[2] # NULL /\ SendMessage(id, i[1], i[2], i[3])) =>
           LET s == sockets[id] IN
           /\ (\E c \in last'.res.calls : c.call = "sendMessage") =>
                IsSome(s) /\ Get(s).isConnected
           /\ (IsSome(s) /\ ~Get(s).isConnected) =>
                /\ last'.res.status = 503
                /\ last'.res.error = "WhatsApp is not connected for this session"
                /\ last'.res.calls = {}]_vars

C11_Witness ==
  /\ last.op = "send" /\ last.res.status = 503 /\ last.res.calls = {}
  /\ IsSome(sockets[last.sid]) /\ ~Get(sockets[last.sid]).isConnected

\* the number of digit characters of a phone number
DigitCount(number) == Cardinality({i \in 1..Len(number) : number[i] \in Digits})
ValidNumber(number) == DigitCount(number) >= 10 /\ DigitCount(number) <= 15

RowOf(msgs, id) == CHOOSE r \in msgs : r.id = id

\* the webhook a session has configured for a category of messages
ConfiguredFor(sessionId, isGroup) ==
  LET row == Get(sessions[sessionId])
  IN IF ~IsSome(row.webhooks) THEN NULL
     ELSE IF isGroup THEN Get(row.webhooks).group ELSE Get(row.webhooks).incoming

\* C13: an inbound message with an id the ledger does not hold, for a session
\* with a row and no webhook for the message's category, is stored with
\* delivered false, no pending webhook and no attempt, no POST is made, and
\* queryUndelivered of the session returns it.
C13_NoTargetRests ==
  [][\A h \in Handles, m \in InboundEvents, ok \in BOOLEAN :
       ( /\ socks[h].st = "open" /\ ~m.key.fromMe
         /\ ~(\E r \in messages : r.id = m.key.id)
         /\ IsSome(sessions[socks[h].sid])
         /\ ConfiguredFor(socks[h].sid, m.key.remoteJid = GroupJid) = NULL
         /\ MessagesUpsert(h, m, ok) ) =>
       /\ \E r \in messages' : r.id = m.key.id /\ r.session_id = socks[h].sid
       /\ LET r == RowOf(messages', m.key.id)
          IN /\ r.delivered = FALSE /\ r.pending_webhook = NULL
             /\ r.delivery_attempts = 0
             /\ r \in getUndeliveredMessages(messages', socks[h].sid, NULL)
       /\ attempted' = attempted
       /\ \A q \in messages : q \in messages']_vars

C13_Witness ==
  \E r \in messages :
    /\ r.is_group /\ r.delivery_attempts = 0 /\ ~r.delivered
    /\ ConfiguredFor(r.session_id, FALSE) # NULL
    /\ ConfiguredFor(r.session_id, TRUE) = NULL
    /\ last = Quiet

\* history: the step made a POST for the stored message r, and whether it failed
Posted(r) ==
  attempted'[<<r.session_id, r.id>>].n = attempted[<<r.session_id, r.id>>].n + 1
PostFailed(r) == Posted(r) /\ attempted'[<<r.session_id, r.id>>].last # "ok"
PostOk(r) == Posted(r) /\ attempted'[<<r.session_id, r.id>>].last = "ok"

\* C14: a failed POST of forward(sessionId, targetUrl) leaves the message
\* undelivered, with targetUrl as pending webhook, the failure as last error
\* and one more attempt, and the result list reports it as pending.
C14_ForwardFailure ==
  [][last'.op = "forward" =>
       \A ids \in SUBSET MsgIds :
         Forward(last'.sid, UrlForward, ids) =>
           \A r \in messages : (r.session_id = last'.sid /\ PostFailed(r)) =>
             /\ r.id \in DOMAIN last'.res /\ last'.res[r.id] = "pending"
             /\ \E q \in messages' :
                  /\ q.id = r.id /\ q.session_id = r.session_id
                  /\ q.delivered = FALSE
                  /\ q.pending_webhook = UrlForward
                  /\ q.last_delivery_error = DeliveryError
                  /\ q.delivery_attempts = r.delivery_attempts + 1]_vars

C14_Witness ==
  /\ last.op = "forward"
  /\ \E r \in messages :
       /\ r.session_id = last.sid /\ r.id \in DOMAIN last.res
       /\ last.res[r.id] = "pending" /\ r.pending_webhook = UrlForward
       /\ r.delivery_attempts = 2

\* C15: a POST answered 2xx, made by ingestion, the backlog scan, forward or
\* retry, leaves the message delivered, without pending webhook and error and
\* with one more attempt, whatever its state was; forward and retry report it
\* as delivered.
C15_SuccessDelivers ==
  [][\A r \in messages : PostOk(r) =>
       /\ \E q \in messages' :
            /\ q.id = r.id /\ q.session_id = r.session_id
            /\ q.delivered = TRUE
            /\ q.pending_webhook = NULL
            /\ q.last_delivery_error = NULL
            /\ q.delivery_attempts = r.delivery_attempts + 1
       /\ last'.op \in {"forward", "retry"} =>
            r.id \in DOMAIN last'.res /\ last'.res[r.id] = "delivered"]_vars

C15_Witness ==
  /\ last.op = "retry"
  /\ \E r \in messages :
       /\ r.session_id = last.sid /\ r.id \in DOMAIN last.res
       /\ last.res[r.id] = "delivered" /\ r.delivered
       /\ r.delivery_attempts = 2
       /\ attempted[<<r.session_id, r.id>>].n = 2

\* the messages forward(sessionId, targetUrl, ids) is to select; without ids the
\* most recent ones, which are all of the session while it holds no more than
\* the limit
Selected(sessionId, ids) ==
  IF ids # {} THEN {r \in messages : r.session_id = sessionId /\ r.id \in ids}
  ELSE {r \in messages : r.session_id = sessionId}

\* rows is the n most recent messages of the session
MostRecent(rows, sessionId, n) ==
  LET own == {r \in messages : r.session_id = sessionId}
  IN /\ rows \subseteq own
     /\ Cardinality(rows) = IF Cardinality(own) < n THEN Cardinality(own) ELSE n
     /\ \A r \in rows, q \in own \ rows : q.timestamp_ms <= r.timestamp_ms

After(r) == CHOOSE q \in messages' : q.id = r.id /\ q.session_id = r.session_id

\* C17: retry with ids makes one POST for each listed message of the session,
\* to the webhook of the request or, without one, to the message's pending
\* webhook; a message with neither is reported skipped, gets no POST and keeps
\* its delivery state.
C17_RetryTargets ==
  [][last'.op = "retry" =>
       \A ids \in (SUBSET MsgIds) \ {{}}, u \in {NULL, UrlForward} :
         RetryForward(last'.sid, ids, u) =>
           /\ DOMAIN last'.res = {r.id : r \in Selected(last'.sid, ids)}
           /\ \A r \in Selected(last'.sid, ids) :
                LET target == IF u # NULL THEN u ELSE r.pending_webhook IN
                IF target = NULL
                THEN /\ last'.res[r.id] = "skipped"
                     /\ r \in messages'
                     /\ ~Posted(r)
                ELSE /\ Posted(r)
                     /\ last'.res[r.id] = IF PostOk(r) THEN "delivered" ELSE "pending"
                     /\ PostFailed(r) =>
                          /\ attempted'[<<r.session_id, r.id>>].last = target
                          /\ After(r).pending_webhook = target]_vars

C17_Witness ==
  /\ last.op = "retry"
  /\ \E r, q \in messages :
       /\ r.session_id = last.sid /\ q.session_id = last.sid
       /\ r.id \in DOMAIN last.res /\ q.id \in DOMAIN last.res
       /\ last.res[r.id] = "skipped" /\ r.delivered
       /\ last.res[q.id] = "pending" /\ q.pending_webhook = UrlGroup

\* the messages of a session that are undelivered or pending
Undelivered(sessionId) ==
  {r \in messages : /\ r.session_id = sessionId
                    /\ (~r.delivered \/ r.pending_webhook # NULL)}

\* C18: retry without ids and webhook answers for the undelivered or pending
\* messages of the session and no others: one POST to the pending webhook of
\* each that has one, skipped for each that has none; the other messages get
\* no POST.
C18_RetryPending ==
  [][last'.op = "retry" =>
       (RetryForward(last'.sid, {}, NULL) =>
          /\ DOMAIN last'.res = {r.id : r \in Undelivered(last'.sid)}
          /\ \A r \in Undelivered(last'.sid) :
               IF r.pending_webhook = NULL
               THEN last'.res[r.id] = "skipped" /\ r \in messages' /\ ~Posted(r)
               ELSE /\ Posted(r)
                    /\ After(r).delivery_attempts = r.delivery_attempts + 1
                    /\ last'.res[r.id] = IF PostOk(r) THEN "delivered" ELSE "pending"
                    /\ PostFailed(r) => After(r).pending_webhook = r.pending_webhook
          /\ \A r \in messages \ Undelivered(last'.sid) :
               r \in messages' /\ ~Posted(r))]_vars

C18_Witness ==
  /\ last.op = "retry" /\ DOMAIN last.res = {"m1", "m2"}
  /\ last.res["m1"] = "skipped" /\ last.res["m2"] = "delivered"
  /\ \E r \in messages : r.id = "m1" /\ ~r.delivered /\ r.delivery_attempts = 0

\* a step that saves a webhook config of the session that differs from the
\* config it had
ConfigChanged(sessionId) ==
  /\ IsSome(sessions'[sessionId])
  /\ loadWebhooks(sessions', sessionId) # loadWebhooks(sessions, sessionId)

\* every pending message of the session whose category has a target in the
\* saved config got one POST, and is delivered if the response was 2xx
BacklogScanned(sessionId) ==
  \A r \in Undelivered(sessionId) :
    targetOf(loadWebhooks(sessions', sessionId), r.is_group) # NULL =>
      /\ Posted(r)
      /\ After(r).delivery_attempts = r.delivery_attempts + 1
      /\ PostOk(r) => After(r).delivered
      /\ PostFailed(r) =>
           After(r).pending_webhook
             = targetOf(loadWebhooks(sessions', sessionId), r.is_group)

\* C19: whatever request saves a changed webhook config of a session, the
\* pending messages of the session whose category has a target in the new
\* config get one POST to that target, and are delivered on a 2xx response.
C19_ConfigChangeScans ==
  [][\A id \in SessionIds : ConfigChanged(id) => BacklogScanned(id)]_vars

\* the entry of the session holds a handle of the session that is still
\* connecting: the handle emits events to the handlers of the session, and the
\* entry is not connected
Initiated(map, pool, id) ==
  /\ IsSome(map[id])
  /\ ~Get(map[id]).isConnected
  /\ pool[Get(map[id]).sock].sid = id
  /\ pool[Get(map[id]).sock].st = "connecting"

\* C20: when POST /sessions returns with the session started, the map holds an
\* entry of the new session with a handle that is connecting and subscribed,
\* the entry is not connected, and the session has a row with an empty
\* credential blob.
C20_CreateReturnsEarly ==
  [][CreateSession(TRUE) =>
       /\ Initiated(sockets', socks', NewId)
       /\ IsSome(sessions'[NewId])
       /\ Get(sessions'[NewId]).auth_json = Some(NoFiles)
       /\ ~IsSome(sockets[NewId]) /\ ~IsSome(sessions[NewId])]_vars

C20_Witness ==
  \E id \in SessionIds :
    /\ Initiated(sockets, socks, id)
    /\ IsSome(sessions[id]) /\ Get(sessions[id]).auth_json = Some(NoFiles)
    /\ last.op = "create" /\ last.sid = id /\ last.res.initialized

\* C21: when startSession throws in createSession, the request answers 201
\* with the new id, initialized false and an error string; the session has its
\* durable row and no runtime entry.
C21_CreateStartFailure ==
  (last.op = "create" /\ ~last.res.initialized) =>
     /\ last.res.status = 201
     /\ last.res.id = last.sid
     /\ last.res.error # NULL
     /\ IsSome(sessions[last.sid])
     /\ Get(sessions[last.sid]).auth_json = Some(NoFiles)
     /\ ~IsSome(sockets[last.sid])
     /\ LiveHandles(World, last.sid) = {}

C21_Witness ==
  /\ last.op = "create" /\ ~last.res.initialized
  /\ IsSome(sessions[last.sid]) /\ ~IsSome(sockets[last.sid])

\* the identity marker in the durable blob, in the working-state directory
BlobMarked(id) ==
  /\ IsSome(sessions[id]) /\ IsSome(Get(sessions[id]).auth_json)
  /\ Get(Get(sessions[id]).auth_json)["creds.json"] = CredsMe

FolderMarked(id) == IsSome(folders[id]) /\ Get(folders[id])["creds.json"] = CredsMe

\* C22: restoreSessions starts no connection for a session with a durable row
\* whose blob and whose directory both lack the identity marker, and leaves
\* the row as it was.
C22_RestoreSkipsUnpaired ==
  [][last'.op = "restore" =>
       \A id \in SessionIds :
         (IsSome(sessions[id]) /\ ~BlobMarked(id) /\ ~FolderMarked(id)) =>
            /\ ~IsSome(sockets'[id])
            /\ \A h \in Handles : socks'[h].sid # id
            /\ sessions'[id] = sessions[id]]_vars

C22_Witness ==
  /\ last.op = "restore"
  /\ \E id, other \in SessionIds :
       /\ IsSome(sessions[id]) /\ ~BlobMarked(id) /\ ~FolderMarked(id)
       /\ ~IsSome(sockets[id])
       /\ IsSome(sockets[other])

\* C23: for a directory whose id has no durable row, restoreSessions saves a
\* row with the contents of the directory and starts the session when the
\* directory holds the identity marker, and does neither when it does not.
C23_OrphanImport ==
  [][last'.op = "restore" =>
       \A id \in SessionIds :
         (IsSome(folders[id]) /\ ~IsSome(sessions[id])) =>
            IF FolderMarked(id)
            THEN /\ IsSome(sessions'[id])
                 /\ Get(sessions'[id]).auth_json = Some(Get(folders[id]))
                 /\ Initiated(sockets', socks', id)
            ELSE /\ ~IsSome(sessions'[id])
                 /\ ~IsSome(sockets'[id])
                 /\ \A h \in Handles : socks'[h].sid # id]_vars

\* a session that restoreSessions started and that had no marked blob
C23_Witness ==
  /\ last.op = "restore"
  /\ \E id \in SessionIds \ last.res :
       /\ Initiated(sockets, socks, id)
       /\ IsSome(sessions[id]) /\ FolderMarked(id)
       /\ Get(sessions[id]).auth_json = Some(Get(folders[id]))

\* no durable row and no runtime entry of the id
Unknown(id) == ~IsSome(sessions[id]) /\ ~IsSome(sockets[id])

\* C24: a request that names an unknown session id changes no durable state;
\* saving a webhook config for an unknown id creates no session row.
C24_UnknownIdNoWrite ==
  [][\A id \in SessionIds :
       (Unknown(id) /\ PostWebhooks(id, NoWebhooks)) =>
          /\ sessions' = sessions
          /\ messages' = messages]_vars

\* C25: every recorded delivery attempt adds one to deliveryAttempts of its
\* message, whatever other attempts on the message are awaited or were recorded
\* since its row was fetched, and no step lowers the counter.
C25_NoLostAttempt ==
  /\ [][last'.op = "returned" =>
          \A p \in inflight :
            (p.id = last'.res /\ \E ok \in BOOLEAN : PostReturns(p, ok)) =>
               \A r \in messages :
                 \E q \in messages' :
                   /\ q.id = r.id
                   /\ q.delivery_attempts =
                        IF r.id = p.id THEN r.delivery_attempts + 1
                        ELSE r.delivery_attempts]_vars
  /\ [][\A r \in messages :
          \E q \in messages' : q.id = r.id /\ q.delivery_attempts >= r.delivery_attempts]_vars

\* an attempt on a message has been recorded while another attempt on it, whose
\* handler fetched the row before, is awaited
C25_Witness ==
  /\ last.op = "returned"
  /\ \E p \in inflight, r \in messages :
       /\ p.id = last.res /\ r.id = p.id /\ r.session_id = p.sid
       /\ r.delivery_attempts = p.seen + 1

\* the row of a message id, before and after a step
Row(id) == CHOOSE r \in messages : r.id = id
RowAfter(id) == CHOOSE r \in messages' : r.id = id

\* the targets a session has configured for the category
CategoryTarget(tbl, sessionId, isGroup) ==
  IF isGroup THEN loadWebhooks(tbl, sessionId).group
  ELSE loadWebhooks(tbl, sessionId).incoming

\* C26: the POST of an ingested message goes to the target its session has
\* configured for the category of the message, and the POSTs of a backlog scan
\* go, for each pending message of the session, to the target of its category
\* in the saved config; without such a target there is no POST.  (The target
\* of a POST is the one recorded when it fails.)
C26_AutomaticRouting ==
  /\ [][\A h \in Handles, m \in InboundEvents :
          (~m.key.fromMe /\ MessagesUpsert(h, m, FALSE)
            /\ \E r \in messages' : r.id = m.key.id) =>
             LET target == CategoryTarget(sessions, socks[h].sid,
                                          m.key.remoteJid.server = "g.us")
             IN IF target = NULL
                THEN /\ messages \subseteq messages'
                     /\ \A r \in messages' \ messages :
                          r.delivery_attempts = 0 /\ r.pending_webhook = NULL
                ELSE /\ RowAfter(m.key.id).pending_webhook = target
                     /\ target = UrlOf(socks[h].sid, m.key.remoteJid.server = "g.us")
                     /\ target # loadWebhooks(sessions, socks[h].sid).status]_vars
  /\ [][\A id \in SessionIds : \A p \in RouteBodies(id) :
          PostWebhooks(id, p) =>
            \A r \in messages :
              IF r \in Undelivered(id) /\ CategoryTarget(sessions', id, r.is_group) # NULL
              THEN /\ Posted(r)
                   /\ PostFailed(r) =>
                        /\ After(r).pending_webhook = UrlOf(id, r.is_group)
                        /\ attempted'[<<id, r.id>>].last = UrlOf(id, r.is_group)
              ELSE r \in messages' /\ ~Posted(r)]_vars

\* a group message and an individual message of a session that has a target
\* for each category, each pending for the target of its category
C26_Witness ==
  \E r, q \in messages :
    /\ r.session_id = q.session_id
    /\ r.is_group /\ r.pending_webhook = UrlOf(r.session_id, TRUE)
    /\ ~q.is_group /\ q.pending_webhook = UrlOf(q.session_id, FALSE)
    /\ loadWebhooks(sessions, r.session_id).status = UrlStatus

\* the files of the working-state directory of a session, none without directory
Contents(fs, id) == IF IsSome(fs[id]) THEN Get(fs[id]) ELSE NoFiles

\* the durable credential blob of the session is what its directory holds
BlobIsContents(tbl, fs, id) ==
  /\ IsSome(tbl[id])
  /\ Get(tbl[id]).auth_json = Some(Contents(fs, id))

\* C27: the handler of a creds.update event, and the handler of an open event
\* of a session that has a runtime entry, leave the durable credential blob of
\* the session equal to the contents of its working-state directory.
C27_CredentialsCaptured ==
  [][\A h \in Handles :
       ( \/ \E paired \in BOOLEAN : CredsUpdate(h, paired)
         \/ ConnectionUpdate(h, "open") /\ IsSome(sockets[socks[h].sid]) )
       => BlobIsContents(sessions', folders', socks[h].sid)]_vars

\* a connected session whose blob and directory hold the paired credentials
C27_Witness ==
  \E id \in SessionIds :
    /\ IsSome(sockets[id]) /\ Get(sockets[id]).isConnected
    /\ socks[Get(sockets[id]).sock].creds = CredsMe
    /\ FolderMarked(id)
    /\ BlobIsContents(sessions, folders, id)

\* the handles keep their state, the live ones go on emitting events
HandlesKept == \A g \in Handles : socks'[g].st = socks[g].st /\ socks'[g].sid = socks[g].sid

\* C28: a save of credentials that the database rejects changes nothing but
\* the working-state directory after a creds.update (the entries, their
\* connection state, the handles and the timers stay), and after an open event
\* the session is connected as after a save that succeeded: entry and handle
\* stay, and the handle goes on emitting events.
C28_SaveErrorSwallowed ==
  [][\A h \in Handles :
       /\ (\E paired \in BOOLEAN : CredsUpdateDbDown(h, paired)) =>
            /\ sockets' = sockets
            /\ HandlesKept
            /\ timers' = timers
            /\ sessions' = sessions
       /\ (OpenDbDown(h) /\ IsSome(sockets[socks[h].sid])) =>
            /\ IsSome(sockets'[socks[h].sid])
            /\ Get(sockets'[socks[h].sid]).sock = Get(sockets[socks[h].sid]).sock
            /\ Get(sockets'[socks[h].sid]).isConnected
            /\ \A id \in SessionIds \ {socks[h].sid} : sockets'[id] = sockets[id]
            /\ socks'[h].st = "open" /\ socks'[h].sid = socks[h].sid
            /\ \A g \in Handles \ {h} : socks'[g] = socks[g]
            /\ timers' = timers
            /\ sessions' = sessions]_vars

\* a session is connected with paired credentials in its directory that the
\* database does not hold: the saves were rejected
C28_Witness ==
  \E id \in SessionIds :
    /\ IsSome(sockets[id]) /\ Get(sockets[id]).isConnected
    /\ socks[Get(sockets[id]).sock].st = "open"
    /\ FolderMarked(id)
    /\ IsSome(sessions[id]) /\ ~BlobMarked(id)

\* startSession(id) ran in the step: a free handle became a connecting handle
\* of the session
Started(id) ==
  \E h \in Handles :
    socks[h].st = "free" /\ socks'[h].st = "connecting" /\ socks'[h].sid = id

\* C29: a step that opens a connection of a session leaves, for every file of
\* the durable credential blob, the blob's content in the working-state
\* directory, and the other files as they were; without a durable blob the
\* contents of the directory are as they were.
C29_Materialize ==
  [][\A id \in SessionIds :
       Started(id) =>
         IF IsSome(sessions'[id]) /\ IsSome(Get(sessions'[id]).auth_json)
         THEN \A f \in Files :
                Contents(folders', id)[f] =
                  IF Get(Get(sessions'[id]).auth_json)[f] # ABSENT
                  THEN Get(Get(sessions'[id]).auth_json)[f]
                  ELSE Contents(folders, id)[f]
         ELSE Contents(folders', id) = Contents(folders, id)]_vars

\* after a restart restoreSessions has started a session from its blob, whose
\* contents are in the directory
C29_Witness ==
  /\ last.op = "restore" /\ restarts = 1
  /\ \E id \in last.res :
       /\ Initiated(sockets, socks, id)
       /\ BlobMarked(id) /\ FolderMarked(id)
       /\ socks[Get(sockets[id]).sock].creds = CredsMe

\* C30: every stored message belongs to a session that has its durable row,
\* and a step removes a stored message only when it removes the durable row of
\* the session that owns it, as DELETE /sessions/:id or as the teardown of a
\* logged-out close: the ingestion, forward, retry and webhook-config steps
\* remove none.
C30_RemovedOnlyByCascade ==
  /\ [](\A r \in messages : IsSome(sessions[r.session_id]))
  /\ [][\A r \in messages :
          (\A q \in messages' : q.id # r.id) =>
             /\ IsSome(sessions[r.session_id]) /\ ~IsSome(sessions'[r.session_id])
             /\ \/ last'.op = "delete" /\ last'.sid = r.session_id
                \/ r.session_id \in loggedOut' \ loggedOut]_vars

\* a session with attempted messages was deleted and lost them, the messages of
\* the other session are kept
C30_Witness ==
  /\ last.op = "delete"
  /\ ~IsSome(sessions[last.sid])
  /\ \A r \in messages : r.session_id # last.sid
  /\ \E r \in messages : r.delivery_attempts >= 1

\* the payload the ingestion of a stored message posts: built from the entry
\* of the protocol message, which the row keeps as raw
IngestPayload(r) == buildWebhookPayload(fromEntry(entryOf(r.raw)))

\* C31: the payloads forward and retry post for a stored message have the raw
\* field and the from field of the payload its ingestion posts.
C31_PayloadContentKept ==
  last.op \in {"forward", "retry"} =>
    \A id \in DOMAIN last.posts :
      \A r \in messages :
        r.id = id =>
          /\ last.posts[id].raw = IngestPayload(r).raw
          /\ last.posts[id].from = IngestPayload(r).from

\* The row of id was removed by DELETE /sessions/:id: POST /sessions stored a
\* row for every id it issued, and only that request and the logged-out
\* teardown remove rows.
Deleted(id) == id \in usedIds /\ id \notin loggedOut /\ ~IsSome(sessions[id])

\* C32: a session removed by an explicit delete is not resurrected by a later
\* process start: restoreSessions creates no row and no runtime entry for it.
C32_DeletedStaysDeleted ==
  [][last'.op = "restore" =>
       \A id \in SessionIds :
         Deleted(id) => ~IsSome(sessions'[id]) /\ ~IsSome(sockets'[id])]_vars

\* C33: a session id has at most one connection handle that is not closed,
\* and whenever a handle is opened for an id (create, restore, reconnect
\* timer) every handle the id had before is closed.
C33_OneLiveHandle ==
  /\ [](\A id \in SessionIds : Cardinality(LiveHandles(World, id)) <= 1)
  /\ [][\A h \in Handles :
          socks[h].st = "free" /\ socks'[h].st = "connecting" =>
            LiveHandles(World, socks'[h].sid) = {}]_vars

\* a reconnect timer has opened a handle for a session whose earlier handle
\* had closed
C33_Witness ==
  /\ last.op = "timer" /\ last.res = "fresh"
  /\ Cardinality(LiveHandles(World, last.sid)) = 1
  /\ IsSome(sockets[last.sid])
  /\ Get(sockets[last.sid]).sock \in LiveHandles(World, last.sid)

C35_ReconnectKeepsNewest ==
  [][last'.op \in {"timer", "restore"} =>
       \A id \in SessionIds :
         (FolderMarked(id) /\ IsSome(sockets'[id])) => FolderMarked(id)']_vars

\* C36: when the last awaited save of the creds.update handlers of a session
\* has run, on a session whose row and directory were there all along, the
\* durable credential blob equals the contents of the directory.
C36_LastSaveIsNewest ==
  [][(/\ last'.op = "persisted"
      /\ \A p \in persisting' : p.sid # last'.sid
      /\ IsSome(sessions[last'.sid])
      /\ IsSome(folders[last'.sid])) =>
        BlobIsContents(sessions', folders', last'.sid)]_vars

\* C37: the awaited save of a creds.update handler creates no row for a
\* session whose row a delete or a logged-out teardown has removed.
C37_TeardownFinal ==
  [][last'.op = "persisted" /\ ~IsSome(sessions[last'.sid]) =>
       ~IsSome(sessions'[last'.sid])]_vars

\* C38: an inbound event whose id the session has stored issues no POST and
\* leaves the ledger as it was: no delivery-state field of the stored message
\* changes, and a delivered message stays delivered.
C38_DuplicateIsSilent ==
  [][last'.op = "upsert" /\ last'.res = "duplicate" =>
       /\ attempted' = attempted
       /\ messages' = messages]_vars

\* the rows of the ledger that belong to other sessions than sessionId
Foreign(msgs, sessionId) == {r \in msgs : r.session_id # sessionId}

\* C39: an inbound event, a forward and a retry of one session change no row
\* of another session, also when the event carries a message id the other
\* session has stored.
C39_SessionsIsolated ==
  /\ [][last'.op \in {"forward", "retry"} =>
          Foreign(messages', last'.sid) = Foreign(messages, last'.sid)]_vars
  /\ [][messages' # messages =>
          \A h \in Handles, m \in InboundEvents, ok \in BOOLEAN :
            MessagesUpsert(h, m, ok) =>
              Foreign(messages', socks[h].sid) = Foreign(messages, socks[h].sid)]_vars

\* the value of a column of the sessions row of id; NULL without row
Column(tbl, id, c) == IF IsSome(tbl[id]) THEN Get(tbl[id])[c] ELSE None

\* C40: saveSession leaves the webhooks and last_status columns of every row
\* as they were, and saveWebhooks and saveLastStatus leave auth_json as it
\* was; each of them leaves the other of the two columns alone as well.
C40_ColumnsIndependent ==
  [][\A id \in SessionIds :
       /\ last'.op = "saveSession" =>
            /\ Column(sessions', id, "webhooks") = Column(sessions, id, "webhooks")
            /\ Column(sessions', id, "last_status") = Column(sessions, id, "last_status")
       /\ last'.op = "saveWebhooks" =>
            /\ Column(sessions', id, "auth_json") = Column(sessions, id, "auth_json")
            /\ Column(sessions', id, "last_status") = Column(sessions, id, "last_status")
       /\ last'.op = "saveLastStatus" =>
            /\ Column(sessions', id, "auth_json") = Column(sessions, id, "auth_json")
            /\ Column(sessions', id, "webhooks") = Column(sessions, id, "webhooks")]_vars

\* credentials were saved into a row that holds webhooks and a last status
C40_Witness ==
  /\ last.op = "saveSession"
  /\ IsSome(Column(sessions, last.sid, "webhooks"))
  /\ IsSome(Column(sessions, last.sid, "last_status"))
  /\ Column(sessions, last.sid, "auth_json") = Some(Paired)

====
